---- MODULE Spec2Model ----
(***************************************************************************)
(* webmonitor (main.py): fetch one page, extract the text of <div id=home>,*)
(* fingerprint it, compare with the fingerprint kept in a local file and   *)
(* e-mail an alert when it differs.  The program is run repeatedly by an   *)
(* external scheduler; the only state that survives a run is the checksum  *)
(* file.  One action per statement of __main__ / monitor_website.          *)
(*                                                                         *)
(* Strings are sequences of one-character strings so that strip() and      *)
(* concatenation are computed, not assumed.  MD5 is abstracted as a        *)
(* deterministic many-to-one function into fixed-length hex strings.       *)
(* Reads and writes of the checksum file are taken to succeed.             *)
(***************************************************************************)
EXTENDS Integers, Sequences, FiniteSets, TLC

\* ---------------------------------------------------------------- bounds
\* number of successive invocations of the program that are explored
MaxRuns == 3
\* size of the digest space of the abstracted hash
DigestSpace == 4

\* ------------------------------------------------------------- constants
\* Strings are sequences of characters; the values that are not strings are
\* one-element sequences holding a token no character equals.
None == <<"None">>        \* Python None
NoFile == <<"NoFile">>    \* os.path.exists(CHECKSUM_FILE) is false
\* a parsed page: whether div#home exists, and its text nodes
NoDiv == [div |-> FALSE, nodes |-> <<>>]
Div(nodes) == [div |-> TRUE, nodes |-> nodes]

Whitespace == {" ", "\n"}

HexDigits == <<"0", "1", "2", "3", "4", "5", "6", "7",
               "8", "9", "a", "b", "c", "d", "e", "f">>

\* ordinal of a character, used by the abstracted hash
Ord(c) == CASE c = "a" -> 1 [] c = "b" -> 2 [] c = " " -> 3 [] c = "\n" -> 4
            [] OTHER -> 5

\* ------------------------------------------------------ string functions
RECURSIVE lstrip(_)
lstrip(s) == IF s # <<>> /\ Head(s) \in Whitespace THEN lstrip(Tail(s)) ELSE s

RECURSIVE rstrip(_)
rstrip(s) == IF s # <<>> /\ s[Len(s)] \in Whitespace
             THEN rstrip(SubSeq(s, 1, Len(s) - 1)) ELSE s

\* str.strip()
strip(s) == rstrip(lstrip(s))

\* Tag.get_text(strip=True): every text node stripped, empty ones dropped,
\* joined with the empty separator
RECURSIVE get_text(_)
get_text(nodes) == IF nodes = <<>> THEN <<>>
                   ELSE strip(Head(nodes)) \o get_text(Tail(nodes))

\* s occurs in t as a contiguous substring (Python: s in t)
Contains(t, s) == \E i \in 0..(Len(t) - Len(s)) : SubSeq(t, i + 1, i + Len(s)) = s

\* ----------------------------------------------------- the outside world
\* values os.getenv can give for a credential: unset, empty, set
EnvValues == {None, <<>>, <<"x">>}

\* pages the server may answer with: the children (text nodes) of div#home,
\* or NoDiv when the page has no such element
Pages == { NoDiv,
           Div(<< >>),
           Div(<< <<"a">> >>),
           Div(<< <<" ", "a", "\n">> >>),
           Div(<< <<"a">>, <<" ">>, <<"b", " ">> >>),
           Div(<< <<"b", "a">> >>),
           Div(<< <<"b">> >>) }

\* what requests.get can do: raise (no response) or give a response; a 300
\* without a Location header is handed to the caller like any other response
Responses == { [kind |-> "network_error", status |-> 0, text |-> NoDiv] }
             \cup { [kind |-> "response", status |-> 200, text |-> p] : p \in Pages }
             \cup { [kind |-> "response", status |-> 300, text |-> p] :
                        p \in {NoDiv, Div(<< <<"a">> >>)} }
             \cup { [kind |-> "response", status |-> st, text |-> NoDiv] : st \in {404, 503} }

\* before requests.get has been called in a run
NoResponse == [kind |-> "none", status |-> 0, text |-> NoDiv]

\* where the SMTP session can fail
SmtpOutcomes == {"ok", "connect", "starttls", "login", "send_message"}

\* ------------------------------------------------------------ components
\* Response.raise_for_status(): raises for 4xx and 5xx
raise_for_status(status) == status >= 400 /\ status < 600

\* fetch_webpage: "raise" or the body of the response
fetch_webpage(resp) ==
    IF resp.kind = "network_error" THEN "raise"
    ELSE IF raise_for_status(resp.status) THEN "raise"
    ELSE "return"

\* variant: a missing div is treated as an empty one instead of raising
extract_target_content_EmptyOnMissing(html) ==
    [raised |-> FALSE, value |-> get_text(html.nodes)]

\* extract_target_content: ValueError when the div is missing (a found Tag
\* is always truthy, even without children)
extract_target_content(html) ==
    IF html.div THEN [raised |-> FALSE, value |-> get_text(html.nodes)]
    ELSE [raised |-> TRUE, value |-> None]

RECURSIVE HashSum(_)
HashSum(content) == IF content = <<>> THEN 0
                    ELSE Ord(Head(content)) + HashSum(Tail(content))

\* calculate_checksum: hexdigest of the (abstracted) hash of the content
calculate_checksum(content) ==
    LET h == HashSum(content) % DigestSpace
    IN  <<HexDigits[(h \div 16) + 1], HexDigits[(h % 16) + 1]>>

\* variant: a missing file reads as the empty string instead of None
load_previous_checksum_EmptyForMissing(f) == IF f # NoFile THEN strip(f) ELSE <<>>

\* variant: the file content is returned without strip()
load_previous_checksum_NoStrip(f) == IF f # NoFile THEN f ELSE None

\* load_previous_checksum: stripped file content, None without a file
load_previous_checksum(f) == IF f # NoFile THEN strip(f) ELSE None

\* variant: the file is opened in append mode
save_checksum_Append(f, checksum) == IF f = NoFile THEN checksum ELSE f \o checksum

\* save_checksum: open(..., "w") truncates, so the file is exactly checksum
save_checksum(f, checksum) == checksum

\* variant: only an unset variable counts as missing
Truthy_NotNone(v) == v # None

\* truthiness of a credential value
Truthy(v) == v # None /\ v # <<>>

\* all(EMAIL_CONFIG.values())
all_values(cfg) == Truthy(cfg.sender) /\ Truthy(cfg.password) /\ Truthy(cfg.receiver)

AlertSubject == "Website Change Detected"
AlertPrefix == <<"The specific section of the website has changed:", "\n", "\n">>

\* variant: the body is the fixed sentence only
AlertBody_NoText(text) == AlertPrefix

\* the f-string passed as body by monitor_website
AlertBody(text) == AlertPrefix \o text

\* the MIMEMultipart message built by send_email
Message(cfg, subject, body) ==
    [From |-> cfg.sender, To |-> cfg.receiver, Subject |-> subject, Body |-> body]

\* variant: no except clause, a failed session raises out of send_email
send_email_raises_Propagate(result) == result # "ok"

\* send_email's "except Exception": does a failed session raise to the caller?
send_email_raises(result) == FALSE

\* variant: any existing baseline counts as a change
Branch_AlwaysChanged(previous, current) ==
    IF previous = None THEN "no_baseline" ELSE "changed"

\* the three-way comparison of monitor_website
Branch(previous, current) ==
    IF previous = None THEN "no_baseline"
    ELSE IF current # previous THEN "changed"
    ELSE "unchanged"

\* ------------------------------------------------------------------ state
VARIABLES
    pc,                 \* position of the program
    runs,               \* invocations started so far
    EMAIL_CONFIG,       \* module-level credentials
    file,               \* content of CHECKSUM_FILE, or NoFile
    content,            \* monitor_website locals (content: the parsed response body)
    target_content,
    current_checksum,
    previous_checksum,
    outcome,            \* how the current run ended ("running" until then)
    attempts,           \* bodies passed to send_email in this run
    smtp,               \* result of this run's SMTP session ("none" if none)
    outbox,             \* messages accepted by the SMTP server in this run
    httpCalls,          \* requests.get calls in this run
    fileReads,          \* opens of the file for reading in this run
    fileWrites,         \* opens of the file for writing in this run
    log,                \* lines printed in this run
    fileAtStart,        \* file content when this run started
    lastRecorded,       \* digest computed by the latest NO_BASELINE/CHANGED run
    prevText,           \* text extracted by the previous run (None if it did not extract)
    prevSmtp,           \* result of the previous run's SMTP session
    response            \* what requests.get did in this run

vars == <<pc, runs, EMAIL_CONFIG, file, content, target_content, current_checksum,
          previous_checksum, outcome, attempts, smtp, outbox, httpCalls, fileReads,
          fileWrites, log, fileAtStart, lastRecorded, prevText, prevSmtp, response>>

locals == <<content, target_content, current_checksum, previous_checksum>>
io == <<attempts, smtp, outbox, httpCalls, fileReads, fileWrites, response>>
hist == <<fileAtStart, lastRecorded, prevText, prevSmtp>>

Digests == { <<HexDigits[(h \div 16) + 1], HexDigits[(h % 16) + 1]>> : h \in 0..(DigestSpace - 1) }

\* the file before the first run: absent, left empty, or holding a digest,
\* possibly followed by a newline
InitFiles == {NoFile, <<>>} \cup Digests \cup { d \o <<"\n">> : d \in Digests }

Init ==
    /\ pc = "idle"
    /\ runs = 0
    /\ EMAIL_CONFIG = [sender |-> None, password |-> None, receiver |-> None]
    /\ file \in InitFiles
    /\ content = NoDiv
    /\ target_content = None
    /\ current_checksum = None
    /\ previous_checksum = None
    /\ outcome = "none"
    /\ attempts = <<>>
    /\ smtp = "none"
    /\ outbox = <<>>
    /\ httpCalls = 0
    /\ fileReads = 0
    /\ fileWrites = 0
    /\ log = <<>>
    /\ fileAtStart = file
    /\ lastRecorded = None
    /\ prevText = None
    /\ prevSmtp = "none"
    /\ response = NoResponse

\* ---------------------------------------------------------------- actions
\* process start: load_dotenv() and the EMAIL_CONFIG dictionary
LoadConfig ==
    /\ pc \in {"idle", "done"}
    /\ runs < MaxRuns
    /\ \E s \in EnvValues, p \in EnvValues, r \in EnvValues :
          EMAIL_CONFIG' = [sender |-> s, password |-> p, receiver |-> r]
    /\ runs' = runs + 1
    /\ pc' = "main"
    /\ outcome' = "running"
    /\ content' = NoDiv
    /\ target_content' = None
    /\ current_checksum' = None
    /\ previous_checksum' = None
    /\ attempts' = <<>>
    /\ smtp' = "none"
    /\ outbox' = <<>>
    /\ httpCalls' = 0
    /\ fileReads' = 0
    /\ fileWrites' = 0
    /\ log' = <<>>
    /\ fileAtStart' = file
    /\ prevText' = IF outcome \in {"no_baseline", "changed", "unchanged"}
                   THEN target_content ELSE None
    /\ prevSmtp' = smtp
    /\ response' = NoResponse
    /\ UNCHANGED <<file, lastRecorded>>

\* __main__: credentials missing
ConfigMissing ==
    /\ pc = "main"
    /\ ~all_values(EMAIL_CONFIG)
    /\ log' = Append(log, "Error: Missing email configuration. Check your .env file.")
    /\ outcome' = "config_error"
    /\ pc' = "done"
    /\ UNCHANGED <<runs, EMAIL_CONFIG, file, locals, io, hist>>

\* __main__: credentials present, monitor_website() is entered
EnterMonitor ==
    /\ pc = "main"
    /\ all_values(EMAIL_CONFIG)
    /\ log' = Append(log, "Fetching the webpage...")
    /\ pc' = "fetch"
    /\ UNCHANGED <<runs, EMAIL_CONFIG, file, locals, outcome, io, hist>>

\* content = fetch_webpage(URL); an exception leaves monitor_website uncaught
Fetch ==
    /\ pc = "fetch"
    /\ \E resp \in Responses :
          /\ response' = resp
          /\ IF fetch_webpage(resp) = "raise"
             THEN /\ outcome' = "fetch_error"
                  /\ pc' = "done"
                  /\ UNCHANGED <<content, log>>
             ELSE /\ content' = resp.text
                  /\ log' = Append(log, "Extracting target content...")
                  /\ pc' = "extract"
                  /\ UNCHANGED outcome
    /\ httpCalls' = httpCalls + 1
    /\ UNCHANGED <<runs, EMAIL_CONFIG, file, target_content, current_checksum,
                   previous_checksum, attempts, smtp, outbox, fileReads, fileWrites, hist>>

\* target_content = extract_target_content(content), ValueError printed
Extract ==
    /\ pc = "extract"
    /\ LET r == extract_target_content(content) IN
          IF r.raised
          THEN /\ log' = Append(log, "Target <div> not found on the webpage.")
               /\ outcome' = "not_found"
               /\ pc' = "done"
               /\ UNCHANGED target_content
          ELSE /\ target_content' = r.value
               /\ pc' = "checksum"
               /\ UNCHANGED <<log, outcome>>
    /\ UNCHANGED <<runs, EMAIL_CONFIG, file, content, current_checksum,
                   previous_checksum, io, hist>>

\* current_checksum = calculate_checksum(target_content)
Checksum ==
    /\ pc = "checksum"
    /\ current_checksum' = calculate_checksum(target_content)
    /\ pc' = "load"
    /\ UNCHANGED <<runs, EMAIL_CONFIG, file, content, target_content,
                   previous_checksum, outcome, io, log, hist>>

\* previous_checksum = load_previous_checksum(CHECKSUM_FILE)
Load ==
    /\ pc = "load"
    /\ previous_checksum' = load_previous_checksum(file)
    /\ fileReads' = IF file # NoFile THEN fileReads + 1 ELSE fileReads
    /\ pc' = "compare"
    /\ UNCHANGED <<runs, EMAIL_CONFIG, file, content, target_content, current_checksum,
                   outcome, attempts, smtp, outbox, httpCalls, fileWrites, log, hist,
                   response>>

\* previous_checksum is None: save the baseline
NoBaseline ==
    /\ pc = "compare"
    /\ Branch(previous_checksum, current_checksum) = "no_baseline"
    /\ log' = Append(log, "No previous checksum found. Saving current state...")
    /\ lastRecorded' = current_checksum
    /\ file' = save_checksum(file, current_checksum)
    /\ fileWrites' = fileWrites + 1
    /\ outcome' = "no_baseline"
    /\ pc' = "done"
    /\ UNCHANGED <<runs, EMAIL_CONFIG, locals, attempts, smtp, outbox, httpCalls,
                   fileReads, fileAtStart, prevText, prevSmtp, response>>

\* variant: the new checksum is saved before the alert is sent
ChangeDetected_SaveFirst ==
    /\ pc = "compare"
    /\ Branch(previous_checksum, current_checksum) = "changed"
    /\ lastRecorded' = current_checksum
    /\ file' = save_checksum(file, current_checksum)
    /\ fileWrites' = fileWrites + 1
    /\ pc' = "send"
    /\ UNCHANGED <<runs, EMAIL_CONFIG, locals, outcome, attempts, smtp, outbox, httpCalls,
                   fileReads, log, fileAtStart, prevText, prevSmtp, response>>

\* current_checksum != previous_checksum: send_email(...)
ChangeDetected ==
    /\ pc = "compare"
    /\ Branch(previous_checksum, current_checksum) = "changed"
    /\ lastRecorded' = current_checksum
    /\ attempts' = Append(attempts, AlertBody(target_content))
    /\ \E result \in SmtpOutcomes :
          /\ smtp' = result
          /\ IF result = "ok"
             THEN /\ outbox' = Append(outbox, Message(EMAIL_CONFIG, AlertSubject,
                                                      AlertBody(target_content)))
                  /\ log' = log \o <<"Change detected! Sending alert...",
                                     "Alert email sent successfully!">>
             ELSE /\ outbox' = outbox
                  /\ log' = log \o <<"Change detected! Sending alert...",
                                     "Failed to send email">>
          /\ IF send_email_raises(result)
             THEN /\ outcome' = "send_error"
                  /\ pc' = "done"
             ELSE /\ outcome' = outcome
                  /\ pc' = "save"
    /\ UNCHANGED <<runs, EMAIL_CONFIG, file, locals, httpCalls, fileReads, fileWrites,
                   fileAtStart, prevText, prevSmtp, response>>

\* variant: the checksum is saved only when the alert was delivered
SaveChanged_OnlyIfSent ==
    /\ pc = "save"
    /\ file' = IF smtp = "ok" THEN save_checksum(file, current_checksum) ELSE file
    /\ fileWrites' = IF smtp = "ok" THEN fileWrites + 1 ELSE fileWrites
    /\ outcome' = "changed"
    /\ pc' = "done"
    /\ UNCHANGED <<runs, EMAIL_CONFIG, locals, attempts, smtp, outbox, httpCalls,
                   fileReads, log, hist, response>>

\* save_checksum(CHECKSUM_FILE, current_checksum) after the alert
SaveChanged ==
    /\ pc = "save"
    /\ file' = save_checksum(file, current_checksum)
    /\ fileWrites' = fileWrites + 1
    /\ outcome' = "changed"
    /\ pc' = "done"
    /\ UNCHANGED <<runs, EMAIL_CONFIG, locals, attempts, smtp, outbox, httpCalls,
                   fileReads, log, hist, response>>

\* checksums equal: nothing to do
NoChange ==
    /\ pc = "compare"
    /\ Branch(previous_checksum, current_checksum) = "unchanged"
    /\ log' = Append(log, "No changes detected.")
    /\ outcome' = "unchanged"
    /\ pc' = "done"
    /\ UNCHANGED <<runs, EMAIL_CONFIG, file, locals, io, hist>>

Next ==
    \/ LoadConfig
    \/ ConfigMissing
    \/ EnterMonitor
    \/ Fetch
    \/ Extract
    \/ Checksum
    \/ Load
    \/ NoBaseline
    \/ ChangeDetected
    \/ SaveChanged
    \/ NoChange

Spec == Init /\ [][Next]_vars

\* ------------------------------------------------------------- properties
\* the run has ended
RunEnded == pc = "done"

\* fetch and extraction succeeded in this run (the text is bound)
Extracted == target_content # None

\* the run started with a state file holding a digest
StartedWithDigest == fileAtStart # NoFile /\ strip(fileAtStart) \in Digests

\* the run is a CHANGED run: a baseline existed and differs from the new digest
ChangedRun ==
    /\ Extracted
    /\ fileAtStart # NoFile
    /\ strip(fileAtStart) # calculate_checksum(target_content)

\* a credential is absent: unset or empty
Absent(v) == v = None \/ v = <<>>

AnyCredentialAbsent ==
    \/ Absent(EMAIL_CONFIG.sender)
    \/ Absent(EMAIL_CONFIG.password)
    \/ Absent(EMAIL_CONFIG.receiver)

\* the fetch of this run failed: requests.get raised (no response), or the
\* response carries an HTTP error status (4xx, 5xx)
FetchFailed ==
    \/ response.kind = "network_error"
    \/ response.kind = "response" /\ response.status \in 400..599

\* the fetch returned a page and the page lacks the target element
ElementMissing ==
    /\ response.kind = "response"
    /\ ~FetchFailed
    /\ ~response.text.div

\* a delivered message whose body contains the extracted text
Delivered == \E i \in 1..Len(outbox) : Contains(outbox[i].Body, target_content)

\* C1 (as stated): a run that starts with a digest D1 in the state file and
\* extracts a text whose digest D2 differs from D1 ends with a notification
\* sent (delivered) whose body contains the text and with D2 in the file.
C1_Original ==
    (RunEnded /\ StartedWithDigest /\ ChangedRun)
        => (Delivered /\ file = calculate_checksum(target_content))

\* C1 (amended): such a run ends with exactly one call of send_email whose
\* body contains the extracted text, the message being delivered when the
\* SMTP session succeeds and only logged when it fails, and with D2 in the
\* state file.
C1_ChangeDetection ==
    (RunEnded /\ StartedWithDigest /\ ChangedRun)
        => /\ Len(attempts) = 1
           /\ Contains(attempts[1], target_content)
           /\ smtp # "none"
           /\ (smtp = "ok" => Delivered /\ Len(outbox) = 1)
           /\ (smtp # "ok" => outbox = <<>>)
           /\ file = calculate_checksum(target_content)

C1_Witness ==
    /\ RunEnded /\ StartedWithDigest /\ ChangedRun
    /\ target_content = <<"a", "b">>
    /\ smtp = "ok"
    /\ Len(outbox) = 1

\* C2: a run that starts without a state file and passes fetch and
\* extraction ends with the file holding the digest of the extracted text,
\* and no notification is attempted or sent in it.
C2_FirstRun ==
    (RunEnded /\ fileAtStart = NoFile /\ Extracted)
        => /\ file = calculate_checksum(target_content)
           /\ file # NoFile
           /\ attempts = <<>>
           /\ outbox = <<>>
           /\ smtp = "none"

C2_Witness ==
    /\ RunEnded /\ fileAtStart = NoFile /\ Extracted
    /\ outcome = "no_baseline"
    /\ file = calculate_checksum(<<"a">>)

\* C3: a run in which the stored digest equals the digest of the extracted
\* text sends nothing and never opens the state file for writing; the file
\* content at the end is the content at the start.
C3_Unchanged ==
    (RunEnded /\ Extracted /\ fileAtStart # NoFile
       /\ strip(fileAtStart) = calculate_checksum(target_content))
        => /\ attempts = <<>>
           /\ outbox = <<>>
           /\ smtp = "none"
           /\ fileWrites = 0
           /\ file = fileAtStart

C3_Witness ==
    /\ RunEnded /\ Extracted /\ fileAtStart # NoFile
    /\ strip(fileAtStart) = calculate_checksum(target_content)
    /\ fileAtStart # strip(fileAtStart)
    /\ outcome = "unchanged"
    /\ file = fileAtStart

\* C4: when the SMTP session of a CHANGED run fails at any step, send_email
\* does not raise, the run goes on to the save, and the run ends with the
\* new digest in the state file.
C4_NotificationIsolation ==
    (ChangedRun /\ smtp \in (SmtpOutcomes \ {"ok"}))
        => /\ pc \in {"save", "done"}
           /\ outcome \in {"running", "changed"}
           /\ (RunEnded => /\ outcome = "changed"
                           /\ file = calculate_checksum(target_content))

C4_Witness ==
    /\ RunEnded /\ ChangedRun /\ StartedWithDigest
    /\ smtp = "login"
    /\ outbox = <<>>
    /\ file = calculate_checksum(target_content)

C6_MissingConfiguration ==
    (pc # "idle" /\ AnyCredentialAbsent)
        => /\ pc \in {"main", "done"}
           /\ httpCalls = 0
           /\ response = NoResponse
           /\ attempts = <<>>
           /\ smtp = "none"
           /\ outbox = <<>>
           /\ fileReads = 0
           /\ fileWrites = 0
           /\ file = fileAtStart
           /\ (RunEnded =>
                 /\ outcome = "config_error"
                 /\ log = <<"Error: Missing email configuration. Check your .env file.">>)

C6_Witness ==
    /\ RunEnded
    /\ EMAIL_CONFIG = [sender |-> <<"x">>, password |-> <<>>, receiver |-> <<"x">>]
    /\ outcome = "config_error"
    /\ httpCalls = 0

\* C7: between runs, a state file that is present holds the digest computed
\* by the most recent run that took the NO_BASELINE or CHANGED branch; the
\* file is created only by a NO_BASELINE run and overwritten only by a
\* CHANGED run.
C7_PersistedState ==
    /\ []((pc \in {"idle", "done"} /\ file # NoFile /\ lastRecorded # None)
            => file = lastRecorded)
    /\ [][ /\ (file' # file => fileWrites' = fileWrites + 1)
           /\ (fileWrites' = fileWrites + 1 =>
                 IF file = NoFile
                 THEN outcome' = "no_baseline"
                 ELSE /\ outcome' = "changed"
                      /\ Branch(previous_checksum, current_checksum) = "changed") ]_vars

C7_Witness ==
    /\ RunEnded
    /\ runs = MaxRuns
    /\ outcome = "fetch_error"
    /\ prevSmtp = "send_message"
    /\ lastRecorded # None
    /\ file = lastRecorded

\* C8: in a CHANGED run the call of send_email has returned, delivered or
\* failed, before the state file is written: the file never holds the new
\* digest, and is never opened for writing, while no notification has been
\* attempted.
C8_NotifyBeforeSave ==
    ChangedRun
        => /\ ((fileWrites > 0 \/ file # fileAtStart
                  \/ file = calculate_checksum(target_content))
                 => Len(attempts) = 1 /\ smtp \in SmtpOutcomes)
           /\ (pc = "save" => file = fileAtStart /\ fileWrites = 0)

C8_Witness ==
    /\ ChangedRun
    /\ pc = "save"
    /\ smtp = "connect"
    /\ file = fileAtStart
    /\ Len(attempts) = 1

\* C9: a run attempts a notification only if the state file existed when the
\* run started and its stripped content differs from the digest of the text
\* extracted in the run; a run attempts at most one notification; runs that
\* end at the configuration check, the fetch or the extraction, or in the
\* NO_BASELINE or UNCHANGED branch, attempt none.
C9_NoFalseAlerts ==
    /\ Len(attempts) <= 1
    /\ Len(outbox) <= Len(attempts)
    /\ (smtp # "none" => attempts # <<>>)
    /\ (attempts # <<>> => ChangedRun)
    /\ (outcome \in {"config_error", "fetch_error", "not_found", "no_baseline", "unchanged"}
          => attempts = <<>>)

C9_Witness ==
    /\ RunEnded
    /\ Len(attempts) = 1
    /\ fileAtStart = <<>>
    /\ runs = 1

\* C10: a run that passes extraction ends with the state file holding the
\* digest of its extracted text, whichever branch it took and whether or not
\* its notification was delivered; a directly following run that extracts
\* the same text takes the UNCHANGED branch, attempts no notification and
\* does not write the file.
C10_Idempotence ==
    /\ (RunEnded /\ Extracted)
          => /\ file # NoFile
             /\ strip(file) = calculate_checksum(target_content)
             /\ (outcome \in {"no_baseline", "changed"}
                   => file = calculate_checksum(target_content))
    /\ (RunEnded /\ Extracted /\ prevText = target_content)
          => /\ outcome = "unchanged"
             /\ attempts = <<>>
             /\ outbox = <<>>
             /\ fileWrites = 0
             /\ file = fileAtStart

C10_Witness ==
    /\ RunEnded /\ Extracted
    /\ prevText = target_content
    /\ prevSmtp = "starttls"
    /\ outcome = "unchanged"
====
